---- MODULE Spec2Model ----
(***************************************************************************)
(* Model of data_diff/dbt.py: the dbt diff dispatcher (dbt_diff), the      *)
(* diff-variable resolver (_get_diff_vars), the local runner (_local_diff) *)
(* and the remote worker (_cloud_diff).                                    *)
(*                                                                         *)
(* Strings are sequences of characters.  The code only ever tests the      *)
(* truthiness of optional strings, so None and "" are both <<>>.           *)
(***************************************************************************)
EXTENDS Integers, Sequences, FiniteSets, TLC

VARIABLES
    is_cloud,        \* dbt_diff argument
    tracking,        \* is_tracking_enabled()
    sink_up,         \* whether the telemetry endpoint accepts events
    models,          \* dbt_parser.get_models(...)
    config,          \* datadiff variables + dbt_parser.requires_upper
    pc,              \* position of the dispatcher (the invoking thread)
    exc,             \* exception dbt_diff raised, "None" if none
    idx,             \* index of the model the for loop is at
    diff_threads,    \* list of started worker threads (by model index)
    joined,          \* number of threads already joined
    diff_vars,       \* per model: the resolved TDiffVars
    wpc,             \* per model: position of its _cloud_diff worker
    werror,          \* per model: `error` local of _cloud_diff
    diff_id,         \* per model: `diff_id` local of _cloud_diff (0 = None)
    trace,           \* per model: its effects in program order (prints,
                     \* backend calls, telemetry events, error log entries)
    extra_columns,   \* per model: column set handed to diff_tables
    payload,         \* per model: `payload` local of _cloud_diff
    table1_columns,  \* local of the running _local_diff
    table2_columns,  \* local of the running _local_diff
    resolve_in,      \* arguments of a stand-alone _get_diff_vars call
    resolve_out,     \* its result
    select_in,       \* arguments of a stand-alone column selection
    select_out,      \* its result
    remote_in,       \* arguments of a stand-alone payload or report computation
    remote_out       \* its result

dispVars == <<is_cloud, tracking, sink_up, models, config, pc, exc, idx, diff_threads, joined, diff_vars>>
jobVars == <<wpc, werror, diff_id, trace, extra_columns, payload>>
localVars == <<table1_columns, table2_columns>>
fnVars == <<resolve_in, resolve_out, select_in, select_out, remote_in, remote_out>>
vars == <<dispVars, jobVars, localVars, fnVars>>

----------------------------------------------------------------------------
(* Bounds *)

MaxModels == 2
MaxList == 1
MaxTemplate == 2
MaxRows == 1

----------------------------------------------------------------------------
(* Strings *)

Placeholder == "<custom_schema>"

UpperChar(c) ==
    CASE c = "a" -> "A"
      [] c = "b" -> "B"
      [] c = "d" -> "D"
      [] c = "i" -> "I"
      [] c = "p" -> "P"
      [] c = "x" -> "X"
      [] c = Placeholder -> "<CUSTOM_SCHEMA>"
      [] OTHER -> c

Upper(s) == [k \in 1..Len(s) |-> UpperChar(s[k])]

Range(s) == {s[k] : k \in 1..Len(s)}

\* str.replace("<custom_schema>", new): every occurrence, left to right, not
\* rescanning the inserted text.  The placeholder is one token of a template.
RECURSIVE Replace(_, _)
Replace(s, new) ==
    IF s = <<>> THEN <<>>
    ELSE (IF Head(s) = Placeholder THEN new ELSE <<Head(s)>>) \o Replace(Tail(s), new)

----------------------------------------------------------------------------
(* _get_diff_vars *)

\* prod database: model-level override, else project-level, else dev
ProdDatabase(model, config_prod_database) ==
    IF model.config_database # <<>> THEN model.config_database
    ELSE IF config_prod_database # <<>> THEN config_prod_database
    ELSE model.database

\* variant: the custom-schema branch is missing
ProdSchema_mut(model, config_prod_schema, config_prod_custom_schema) ==
    IF config_prod_schema # <<>> THEN [raised |-> FALSE, value |-> config_prod_schema]
    ELSE [raised |-> FALSE, value |-> model.schema_]

\* variant: the custom schema is looked at before the project-level override
ProdSchema_strict(model, config_prod_schema, config_prod_custom_schema) ==
    IF model.config_schema # <<>>
    THEN IF config_prod_custom_schema = <<>>
         THEN [raised |-> TRUE, value |-> <<>>]
         ELSE [raised |-> FALSE,
               value |-> Replace(config_prod_custom_schema, model.config_schema)]
    ELSE IF config_prod_schema # <<>>
         THEN [raised |-> FALSE, value |-> config_prod_schema]
         ELSE [raised |-> FALSE, value |-> model.schema_]

\* prod schema; raised = the ValueError "Found a custom schema on model ..."
ProdSchema(model, config_prod_schema, config_prod_custom_schema) ==
    IF config_prod_schema # <<>>
    THEN IF model.config_schema # <<>>
         THEN IF config_prod_custom_schema = <<>>
              THEN [raised |-> TRUE, value |-> <<>>]
              ELSE [raised |-> FALSE,
                    value |-> Replace(config_prod_custom_schema, model.config_schema)]
         ELSE [raised |-> FALSE, value |-> config_prod_schema]
    ELSE [raised |-> FALSE, value |-> model.schema_]

\* variant: blank segments are kept
QualifiedList_unfiltered(segments, requires_upper) ==
    IF requires_upper THEN [k \in 1..Len(segments) |-> Upper(segments[k])] ELSE segments

\* [x for x in [...] if x], upper-cased when the connection requires it
QualifiedList(segments, requires_upper) ==
    LET kept == SelectSeq(segments, LAMBDA x : x # <<>>)
    IN  IF requires_upper THEN [k \in 1..Len(kept) |-> Upper(kept[k])] ELSE kept

PrimaryKeys(model, requires_upper) ==
    IF requires_upper
    THEN [k \in 1..Len(model.primary_keys) |-> Upper(model.primary_keys[k])]
    ELSE model.primary_keys

_get_diff_vars(cfg, model) ==
    LET dev_database == model.database
        dev_schema == model.schema_
        prod_database == ProdDatabase(model, cfg.prod_database)
        ps == ProdSchema(model, cfg.prod_schema, cfg.prod_custom_schema)
    IN  [raised |-> ps.raised,
         prod_schema |-> ps.value,
         dev_path |-> IF ps.raised THEN <<>>
                      ELSE QualifiedList(<<dev_database, dev_schema, model.alias>>,
                                         cfg.requires_upper),
         prod_path |-> IF ps.raised THEN <<>>
                       ELSE QualifiedList(<<prod_database, ps.value, model.alias>>,
                                          cfg.requires_upper),
         primary_keys |-> IF ps.raised THEN <<>> ELSE PrimaryKeys(model, cfg.requires_upper),
         where_filter |-> model.where_filter,
         include_columns |-> model.include_columns,
         exclude_columns |-> model.exclude_columns]

----------------------------------------------------------------------------
(* _local_diff: schema reconciliation and column selection.  A schema is a  *)
(* function from column names to the type descriptor (v[1] of the tuple).  *)

ColumnsAdded(t1, t2) == DOMAIN t1 \ DOMAIN t2

ColumnsRemoved(t1, t2) == DOMAIN t2 \ DOMAIN t1

\* variant: compares element 0 of the tuples (the name) instead of the type
ColumnsTypeChanged_mut(t1, t2) == {k \in DOMAIN t1 : k \in DOMAIN t2 /\ k # k}

ColumnsTypeChanged(t1, t2) == {k \in DOMAIN t1 : k \in DOMAIN t2 /\ t1[k] # t2[k]}

IncludeFilter(column_set, include_columns) ==
    IF include_columns # <<>>
    THEN {x \in column_set : Upper(x) \in {Upper(y) : y \in Range(include_columns)}}
    ELSE column_set

\* variant: the exclude list is matched case-sensitively
ExcludeFilter_mut(column_set, exclude_columns) ==
    IF exclude_columns # <<>>
    THEN {x \in column_set : x \notin Range(exclude_columns)}
    ELSE column_set

ExcludeFilter(column_set, exclude_columns) ==
    IF exclude_columns # <<>>
    THEN {x \in column_set : Upper(x) \notin {Upper(y) : y \in Range(exclude_columns)}}
    ELSE column_set

\* variant: the primary keys are not taken out of the column set
ExtraColumns_mut(t1, t2, primary_keys, include_columns, exclude_columns) ==
    LET both == DOMAIN t1 \cap DOMAIN t2
        changed == ColumnsTypeChanged(t1, t2)
        same_type == IF changed # {} THEN both \ changed ELSE both
    IN  ExcludeFilter(IncludeFilter(same_type, include_columns), exclude_columns)

ExtraColumns(t1, t2, primary_keys, include_columns, exclude_columns) ==
    LET both == DOMAIN t1 \cap DOMAIN t2
        changed == ColumnsTypeChanged(t1, t2)
        same_type == IF changed # {} THEN both \ changed ELSE both
        no_keys == same_type \ Range(primary_keys)
    IN  ExcludeFilter(IncludeFilter(no_keys, include_columns), exclude_columns)

----------------------------------------------------------------------------
(* Inputs of a run *)

Str(c) == <<c>>

Model(database, schema_, alias, config_database, config_schema, primary_keys, where_filter, include_columns, exclude_columns) ==
    [database |-> database, schema_ |-> schema_, alias |-> alias,
     config_database |-> config_database, config_schema |-> config_schema,
     primary_keys |-> primary_keys, where_filter |-> where_filter,
     include_columns |-> include_columns, exclude_columns |-> exclude_columns]

Config(prod_database, prod_schema, prod_custom_schema, requires_upper) ==
    [prod_database |-> prod_database, prod_schema |-> prod_schema,
     prod_custom_schema |-> prod_custom_schema, requires_upper |-> requires_upper]

\* models of a dispatched run: one with a key, one without, one with a
\* custom schema
RunModels ==
    { Model(Str("d"), Str("a"), Str("b"), <<>>, <<>>, <<Str("i")>>, <<>>, <<>>, <<>>),
      Model(Str("d"), Str("a"), Str("b"), <<>>, <<>>, <<>>, <<>>, <<>>, <<>>),
      Model(Str("d"), Str("a"), Str("b"), <<>>, Str("x"), <<Str("i")>>, <<>>,
            <<Str("a")>>, <<>>) }

RunConfigs ==
    { Config(<<>>, <<>>, <<>>, FALSE),
      Config(<<>>, Str("p"), <<>>, FALSE),
      Config(<<>>, Str("p"), <<"p", Placeholder>>, TRUE) }

ModelLists == UNION {[1..n -> RunModels] : n \in 1..MaxModels}

Types == {"int", "text"}

Schemas(names) == UNION {[cols -> Types] : cols \in SUBSET names}

\* schemas a table of a dispatched run may have
RunSchemas ==
    { [c \in {Str("i"), Str("a"), Str("b")} |-> "int"],
      [c \in {Str("i"), Str("a"), Str("x")} |-> IF c = Str("a") THEN "text" ELSE "int"],
      [c \in {Str("i"), Str("a"), Str("x")} |-> "int"] }

\* result documents of the remote service a dispatched run may receive
RunResults ==
    { [exclusives |-> <<0, 0>>, rows_with_differences |-> 0, total_rows |-> 2,
       columns_diff_stats |-> <<>>, exclusive_columns |-> <<<<>>, <<>>>>,
       column_type_differs |-> <<>>],
      [exclusives |-> <<0, 1>>, rows_with_differences |-> 1, total_rows |-> 2,
       columns_diff_stats |-> <<[column_name |-> Str("a"), match |-> 50]>>,
       exclusive_columns |-> <<<<Str("x")>>, <<Str("b")>>>>,
       column_type_differs |-> <<>>] }

\* datadiff_variables.get("datasource_id") of a dispatched run
datasource_id == 1234

NoPayload == [built |-> FALSE]

NoDiffVars ==
    [raised |-> FALSE, prod_schema |-> <<>>, dev_path |-> <<>>, prod_path |-> <<>>,
     primary_keys |-> <<>>, where_filter |-> <<>>, include_columns |-> <<>>,
     exclude_columns |-> <<>>]

NoCall == [called |-> FALSE]

NoSchema == <<>>

----------------------------------------------------------------------------
(* Effects *)

Effect(kind, what) == [kind |-> kind, what |-> what]

RichPrint(text) == Effect("print", text)
Call(name) == Effect("call", <<name>>)
Event(what) == Effect("event", what)
Log(error) == Effect("log", <<error>>)
Raises(error) == Effect("raise", <<error>>)

OfKind(m, kind) == SelectSeq(trace[m], LAMBDA e : e.kind = kind)

Emit(m, effects) == trace' = [trace EXCEPT ![m] = @ \o effects]

\* _diff_output_base
DiffOutputBase == <<"base">>

----------------------------------------------------------------------------
(* dbt_diff *)

Init ==
    /\ is_cloud \in BOOLEAN
    /\ tracking \in BOOLEAN
    /\ sink_up \in (IF tracking THEN BOOLEAN ELSE {TRUE})
    /\ models \in ModelLists
    /\ config \in RunConfigs
    /\ pc = "setup"
    /\ exc = "None"
    /\ idx = 1
    /\ diff_threads = <<>>
    /\ joined = 0
    /\ diff_vars = [m \in 1..Len(models) |-> NoDiffVars]
    /\ wpc = [m \in 1..Len(models) |-> "none"]
    /\ werror = [m \in 1..Len(models) |-> "None"]
    /\ diff_id = [m \in 1..Len(models) |-> 0]
    /\ trace = [m \in 1..Len(models) |-> <<>>]
    /\ payload = [m \in 1..Len(models) |-> NoPayload]
    /\ extra_columns = [m \in 1..Len(models) |-> {}]
    /\ table1_columns = NoSchema
    /\ table2_columns = NoSchema
    /\ resolve_in = NoCall
    /\ resolve_out = NoCall
    /\ select_in = NoCall
    /\ select_out = NoCall
    /\ remote_in = NoCall
    /\ remote_out = NoCall

\* an exception nothing catches leaves dbt_diff
Raise(error) ==
    /\ pc' = "raised"
    /\ exc' = error

\* api initialised, data source known: "Diffs in progress..."
SetupCloud ==
    /\ pc = "setup"
    /\ is_cloud
    /\ pc' = "loop"
    /\ UNCHANGED <<is_cloud, tracking, sink_up, models, config, exc, idx, diff_threads, joined, diff_vars>>
    /\ UNCHANGED <<jobVars, localVars, fnVars>>

\* _initialize_api returned None: exit so the user can set the key
SetupNoApi ==
    /\ pc = "setup"
    /\ is_cloud
    /\ pc' = "returned"
    /\ UNCHANGED <<is_cloud, tracking, sink_up, models, config, exc, idx, diff_threads, joined, diff_vars>>
    /\ UNCHANGED <<jobVars, localVars, fnVars>>

\* no API key / no data source id and the user declines
SetupRaise ==
    /\ pc = "setup"
    /\ is_cloud
    /\ Raise("ValueError:setup")
    /\ UNCHANGED <<is_cloud, tracking, sink_up, models, config, idx, diff_threads, joined, diff_vars>>
    /\ UNCHANGED <<jobVars, localVars, fnVars>>

SetupLocal ==
    /\ pc = "setup"
    /\ ~is_cloud
    /\ pc' = "loop"
    /\ UNCHANGED <<is_cloud, tracking, sink_up, models, config, exc, idx, diff_threads, joined, diff_vars>>
    /\ UNCHANGED <<jobVars, localVars, fnVars>>

AtModel == pc = "loop" /\ idx <= Len(models)

Resolved == _get_diff_vars(config, models[idx])

\* _get_diff_vars raises: the ValueError leaves the loop and dbt_diff
ResolveRaise ==
    /\ AtModel
    /\ Resolved.raised
    /\ Raise("ValueError:custom_schema")
    /\ UNCHANGED <<is_cloud, tracking, sink_up, models, config, idx, diff_threads, joined, diff_vars>>
    /\ UNCHANGED <<jobVars, localVars, fnVars>>

\* no primary keys: print the notice, next model
SkipModel ==
    /\ AtModel
    /\ ~Resolved.raised
    /\ Resolved.primary_keys = <<>>
    /\ diff_vars' = [diff_vars EXCEPT ![idx] = Resolved]
    /\ Emit(idx, <<RichPrint(DiffOutputBase \o <<"skipped_unknown_primary_key">>)>>)
    /\ idx' = idx + 1
    /\ UNCHANGED <<is_cloud, tracking, sink_up, models, config, pc, exc, diff_threads, joined>>
    /\ UNCHANGED <<wpc, werror, diff_id, extra_columns, payload, localVars, fnVars>>

\* variant: the thread is started without looking at the primary keys
StartCloud_mut ==
    /\ AtModel
    /\ ~Resolved.raised
    /\ is_cloud
    /\ diff_vars' = [diff_vars EXCEPT ![idx] = Resolved]
    /\ wpc' = [wpc EXCEPT ![idx] = "begin"]
    /\ diff_threads' = Append(diff_threads, idx)
    /\ idx' = idx + 1
    /\ UNCHANGED <<is_cloud, tracking, sink_up, models, config, pc, exc, joined>>
    /\ UNCHANGED <<werror, diff_id, trace, extra_columns, payload, localVars, fnVars>>

\* variant: the threads started so far are awaited before the next starts
StartCloud_blocking ==
    /\ AtModel
    /\ ~Resolved.raised
    /\ Resolved.primary_keys # <<>>
    /\ is_cloud
    /\ \A k \in 1..Len(diff_threads) : wpc[diff_threads[k]] = "done"
    /\ diff_vars' = [diff_vars EXCEPT ![idx] = Resolved]
    /\ wpc' = [wpc EXCEPT ![idx] = "begin"]
    /\ diff_threads' = Append(diff_threads, idx)
    /\ idx' = idx + 1
    /\ UNCHANGED <<is_cloud, tracking, sink_up, models, config, pc, exc, joined>>
    /\ UNCHANGED <<werror, diff_id, trace, extra_columns, payload, localVars, fnVars>>

\* run_as_daemon(_cloud_diff, ...); diff_threads.append(diff_thread)
StartCloud ==
    /\ AtModel
    /\ ~Resolved.raised
    /\ Resolved.primary_keys # <<>>
    /\ is_cloud
    /\ diff_vars' = [diff_vars EXCEPT ![idx] = Resolved]
    /\ wpc' = [wpc EXCEPT ![idx] = "begin"]
    /\ diff_threads' = Append(diff_threads, idx)
    /\ idx' = idx + 1
    /\ UNCHANGED <<is_cloud, tracking, sink_up, models, config, pc, exc, joined>>
    /\ UNCHANGED <<werror, diff_id, trace, extra_columns, payload, localVars, fnVars>>

\* variant: the local job is handed to a thread like a remote one
EnterLocal_thread ==
    /\ AtModel
    /\ ~Resolved.raised
    /\ Resolved.primary_keys # <<>>
    /\ ~is_cloud
    /\ diff_vars' = [diff_vars EXCEPT ![idx] = Resolved]
    /\ wpc' = [wpc EXCEPT ![idx] = "begin"]
    /\ diff_threads' = Append(diff_threads, idx)
    /\ idx' = idx + 1
    /\ UNCHANGED <<is_cloud, tracking, sink_up, models, config, pc, exc, joined>>
    /\ UNCHANGED <<werror, diff_id, trace, extra_columns, payload, localVars, fnVars>>

\* _local_diff(diff_vars) is entered on the invoking thread
EnterLocal ==
    /\ AtModel
    /\ ~Resolved.raised
    /\ Resolved.primary_keys # <<>>
    /\ ~is_cloud
    /\ diff_vars' = [diff_vars EXCEPT ![idx] = Resolved]
    /\ pc' = "connect_dev"
    /\ UNCHANGED <<is_cloud, tracking, sink_up, models, config, exc, idx, diff_threads, joined>>
    /\ UNCHANGED <<jobVars, localVars, fnVars>>

\* the for loop is exhausted
LoopEnd ==
    /\ pc = "loop"
    /\ idx > Len(models)
    /\ pc' = IF diff_threads # <<>> THEN "join" ELSE "returned"
    /\ UNCHANGED <<is_cloud, tracking, sink_up, models, config, exc, idx, diff_threads, joined, diff_vars>>
    /\ UNCHANGED <<jobVars, localVars, fnVars>>

\* variant: the join does not wait for the thread
Join_mut ==
    /\ pc = "join"
    /\ joined < Len(diff_threads)
    /\ joined' = joined + 1
    /\ pc' = IF joined + 1 = Len(diff_threads) THEN "returned" ELSE "join"
    /\ UNCHANGED <<is_cloud, tracking, sink_up, models, config, exc, idx, diff_threads, diff_vars>>
    /\ UNCHANGED <<jobVars, localVars, fnVars>>

\* thread.join() returns once that thread has terminated
Join ==
    /\ pc = "join"
    /\ joined < Len(diff_threads)
    /\ wpc[diff_threads[joined + 1]] = "done"
    /\ joined' = joined + 1
    /\ pc' = IF joined + 1 = Len(diff_threads) THEN "returned" ELSE "join"
    /\ UNCHANGED <<is_cloud, tracking, sink_up, models, config, exc, idx, diff_threads, diff_vars>>
    /\ UNCHANGED <<jobVars, localVars, fnVars>>

----------------------------------------------------------------------------
(* _local_diff, run in line by the dispatcher for models[idx] *)

\* table1 = connect_to_table(connection, dev_qualified_str, ...)
ConnectDev ==
    /\ pc = "connect_dev"
    /\ \/ /\ Emit(idx, <<Call("connect_to_table:dev")>>)
          /\ pc' = "connect_prod"
          /\ exc' = exc
       \/ /\ Emit(idx, <<Call("connect_to_table:dev"), Raises("ConnectionError:dev")>>)
          /\ Raise("ConnectionError:dev")
    /\ UNCHANGED <<is_cloud, tracking, sink_up, models, config, idx, diff_threads, joined, diff_vars>>
    /\ UNCHANGED <<wpc, werror, diff_id, extra_columns, payload, localVars, fnVars>>

\* table2 = connect_to_table(connection, prod_qualified_str, ...)
ConnectProd ==
    /\ pc = "connect_prod"
    /\ \/ /\ Emit(idx, <<Call("connect_to_table:prod")>>)
          /\ pc' = "schema_dev"
          /\ exc' = exc
       \/ /\ Emit(idx, <<Call("connect_to_table:prod"), Raises("ConnectionError:prod")>>)
          /\ Raise("ConnectionError:prod")
    /\ UNCHANGED <<is_cloud, tracking, sink_up, models, config, idx, diff_threads, joined, diff_vars>>
    /\ UNCHANGED <<wpc, werror, diff_id, extra_columns, payload, localVars, fnVars>>

\* table1_columns = table1.get_schema(), outside any try
SchemaDev ==
    /\ pc = "schema_dev"
    /\ \/ \E t1 \in RunSchemas :
            /\ Emit(idx, <<Call("table1.get_schema")>>)
            /\ table1_columns' = t1
            /\ pc' = "schema_prod"
            /\ exc' = exc
       \/ /\ Emit(idx, <<Call("table1.get_schema"), Raises("SchemaError:dev")>>)
          /\ Raise("SchemaError:dev")
          /\ UNCHANGED table1_columns
    /\ UNCHANGED <<is_cloud, tracking, sink_up, models, config, idx, diff_threads, joined, diff_vars>>
    /\ UNCHANGED <<wpc, werror, diff_id, extra_columns, payload, table2_columns, fnVars>>

\* variant: the except branch prints the report but does not return
SchemaProd_mut ==
    /\ pc = "schema_prod"
    /\ \/ \E t2 \in RunSchemas :
            /\ table2_columns' = t2
            /\ Emit(idx, <<Call("table2.get_schema")>>)
       \/ /\ Emit(idx, <<Call("table2.get_schema"), Raises("SchemaError:prod"),
                         RichPrint(DiffOutputBase \o <<"new_model_or_no_access">>)>>)
          /\ UNCHANGED table2_columns
    /\ pc' = "diff"
    /\ UNCHANGED <<is_cloud, tracking, sink_up, models, config, exc, idx, diff_threads, joined, diff_vars>>
    /\ UNCHANGED <<wpc, werror, diff_id, extra_columns, payload, table1_columns, fnVars>>

\* try: table2_columns = table2.get_schema()
\* except Exception: print "New model or no access to prod table." and return
SchemaProd ==
    /\ pc = "schema_prod"
    /\ \/ \E t2 \in RunSchemas :
            /\ table2_columns' = t2
            /\ Emit(idx, <<Call("table2.get_schema")>>)
            /\ pc' = "diff"
            /\ UNCHANGED <<idx, table1_columns>>
       \/ /\ Emit(idx, <<Call("table2.get_schema"), Raises("SchemaError:prod"),
                         RichPrint(DiffOutputBase \o <<"new_model_or_no_access">>)>>)
          /\ pc' = "loop"
          /\ idx' = idx + 1
          /\ table1_columns' = NoSchema
          /\ UNCHANGED table2_columns
    /\ UNCHANGED <<is_cloud, tracking, sink_up, models, config, exc, diff_threads, joined, diff_vars>>
    /\ UNCHANGED <<wpc, werror, diff_id, extra_columns, payload, fnVars>>

\* the column blocks appended to diff_output_str
ColumnBlocks(added, removed, type_changed) ==
    (IF added # {} THEN <<"columns_added">> ELSE <<>>)
    \o (IF removed # {} THEN <<"columns_removed">> ELSE <<>>)
    \o (IF type_changed # {} THEN <<"columns_type_changed">> ELSE <<>>)

\* reconcile the schemas, select the columns, diff_tables(...), print
DiffTables ==
    /\ pc = "diff"
    /\ LET dv == diff_vars[idx]
           text == DiffOutputBase
                   \o ColumnBlocks(ColumnsAdded(table1_columns, table2_columns),
                                   ColumnsRemoved(table1_columns, table2_columns),
                                   ColumnsTypeChanged(table1_columns, table2_columns))
       IN  /\ extra_columns' = [extra_columns EXCEPT ![idx] =
                                  ExtraColumns(table1_columns, table2_columns, dv.primary_keys,
                                               dv.include_columns, dv.exclude_columns)]
           /\ \E outcome \in {"differences", "none", "raise"} :
                IF outcome = "raise"
                THEN /\ Emit(idx, <<Call("diff_tables"), Raises("DiffError")>>)
                     /\ Raise("DiffError")
                     /\ UNCHANGED <<idx, localVars>>
                ELSE /\ Emit(idx, <<Call("diff_tables"),
                                    RichPrint(text \o <<IF outcome = "differences"
                                                        THEN "stats" ELSE "no_differences">>)>>)
                     /\ pc' = "loop"
                     /\ idx' = idx + 1
                     /\ exc' = exc
                     /\ table1_columns' = NoSchema
                     /\ table2_columns' = NoSchema
    /\ UNCHANGED <<is_cloud, tracking, sink_up, models, config, diff_threads, joined, diff_vars>>
    /\ UNCHANGED <<wpc, werror, diff_id, payload, fnVars>>

----------------------------------------------------------------------------
(* _cloud_diff: the payload and the translation of the result document.    *)
(* Python index 0 of a pair is element 1 of the tuple, index 1 element 2.  *)

\* variant: the dev path as table1 and the prod path as table2
CloudPayload_swapped(dv, ds_id) ==
    [built |-> TRUE,
     data_source1_id |-> ds_id,
     data_source2_id |-> ds_id,
     table1 |-> dv.dev_path,
     table2 |-> dv.prod_path,
     pk_columns |-> dv.primary_keys,
     filter1 |-> dv.where_filter,
     filter2 |-> dv.where_filter,
     include_columns |-> dv.include_columns,
     exclude_columns |-> dv.exclude_columns]

\* TCloudApiDataDiff(...)
CloudPayload(dv, ds_id) ==
    [built |-> TRUE,
     data_source1_id |-> ds_id,
     data_source2_id |-> ds_id,
     table1 |-> dv.prod_path,
     table2 |-> dv.dev_path,
     pk_columns |-> dv.primary_keys,
     filter1 |-> dv.where_filter,
     filter2 |-> dv.where_filter,
     include_columns |-> dv.include_columns,
     exclude_columns |-> dv.exclude_columns]

DigitChar(d) == <<"0", "1", "2", "3", "4", "5", "6", "7", "8", "9">>[d + 1]

RECURSIVE Digits(_)
Digits(n) == IF n < 10 THEN <<DigitChar(n)>> ELSE Digits(n \div 10) \o <<DigitChar(n % 10)>>

\* str(n) of an int
IntStr(n) == IF n < 0 THEN <<"-">> \o Digits(0 - n) ELSE Digits(n)

\* variant: every column is kept, full matches included
DiffPercentList_all(columns_diff_stats) ==
    [n \in {columns_diff_stats[k].column_name : k \in 1..Len(columns_diff_stats)} |->
        <<columns_diff_stats[CHOOSE k \in 1..Len(columns_diff_stats) :
                                columns_diff_stats[k].column_name = n].match, "%">>]

\* {x.column_name: str(x.match) + "%" for x in columns_diff_stats if x.match != 100.0}
\* a later entry of the same column replaces an earlier one
DiffPercentList(columns_diff_stats) ==
    LET kept == SelectSeq(columns_diff_stats, LAMBDA x : x.match # 100)
        names == {kept[k].column_name : k \in 1..Len(kept)}
        last(n) == CHOOSE k \in 1..Len(kept) :
                       /\ kept[k].column_name = n
                       /\ \A j \in (k + 1)..Len(kept) : kept[j].column_name # n
    IN  [n \in names |-> <<kept[last(n)].match, "%">>]

\* the column blocks appended to diff_output_str (lists, tested for truth)
CloudColumnBlocks(columns_added, columns_removed, column_type_changes) ==
    (IF columns_added # <<>> THEN <<"columns_added">> ELSE <<>>)
    \o (IF columns_removed # <<>> THEN <<"columns_removed">> ELSE <<>>)
    \o (IF column_type_changes # <<>> THEN <<"columns_type_changed">> ELSE <<>>)

\* variant: the updated rows are not subtracted
RowsUnchanged_mut(r) == r.total_rows

\* rows_unchanged = int(total_rows) - int(rows_updated)
RowsUnchanged(r) == r.total_rows - r.rows_with_differences

\* what _cloud_diff derives from the result document, and the text it prints;
\* row_delta holds the arguments of dbt_diff_string_template when it is called
CloudReport(r) ==
    LET rows_added_count == r.exclusives[2]
        rows_removed_count == r.exclusives[1]
        rows_updated == r.rows_with_differences
        rows_unchanged == RowsUnchanged(r)
        diff_percent_list == DiffPercentList(r.columns_diff_stats)
        columns_added == r.exclusive_columns[2]
        columns_removed == r.exclusive_columns[1]
        column_type_changes == r.column_type_differs
        any == rows_added_count # 0 \/ rows_removed_count # 0 \/ rows_updated # 0
    IN  [columns_added |-> columns_added,
         columns_removed |-> columns_removed,
         column_type_changes |-> column_type_changes,
         row_delta |-> IF any
                       THEN <<[rows_added |-> rows_added_count,
                               rows_removed |-> rows_removed_count,
                               rows_updated |-> rows_updated,
                               rows_unchanged |-> IntStr(rows_unchanged),
                               diff_percent_list |-> diff_percent_list]>>
                       ELSE <<>>,
         text |-> DiffOutputBase
                  \o CloudColumnBlocks(columns_added, columns_removed, column_type_changes)
                  \o <<"url", IF any THEN "row_delta" ELSE "no_differences">>]

\* tracking.send_event_json: posts the event; a failure to post is swallowed
\* inside the call, which returns normally either way
send_event_json(event) == <<Event(event \o <<IF sink_up THEN "sent" ELSE "dropped">>)>>

----------------------------------------------------------------------------
(* _cloud_diff, one worker thread per model m.  The calls into the tracking *)
(* module (is_tracking_enabled, create_*_event_json, send_event_json) are   *)
(* recorded as events and return normally, whether or not the event could  *)
(* be delivered.                                                           *)

\* output base, payload, start event when tracking is enabled
WorkerBegin(m) ==
    /\ wpc[m] = "begin"
    /\ payload' = [payload EXCEPT ![m] = CloudPayload(diff_vars[m], datasource_id)]
    /\ Emit(m, IF tracking THEN send_event_json(<<"start">>) ELSE <<>>)
    /\ wpc' = [wpc EXCEPT ![m] = "submit"]
    /\ UNCHANGED <<dispVars, werror, diff_id, extra_columns, localVars, fnVars>>

\* variant: except Exception, which lets a KeyboardInterrupt through
Caught_mut(m, error) ==
    /\ werror' = [werror EXCEPT ![m] = IF error = "KeyboardInterrupt" THEN @ ELSE error]
    /\ wpc' = [wpc EXCEPT ![m] = "finally"]

\* except BaseException as ex: error = ex   (KeyboardInterrupt included)
Caught(m, error) ==
    /\ werror' = [werror EXCEPT ![m] = error]
    /\ wpc' = [wpc EXCEPT ![m] = "finally"]

\* variant: the response is not checked for a missing diff_id
WorkerSubmit_unchecked(m) ==
    /\ wpc[m] = "submit"
    /\ \/ /\ Emit(m, <<Call("create_data_diff"), Raises("Exception:create_data_diff")>>)
          /\ Caught(m, "Exception:create_data_diff")
          /\ UNCHANGED diff_id
       \/ \E id \in {0, m} :
            /\ diff_id' = [diff_id EXCEPT ![m] = id]
            /\ Emit(m, <<Call("create_data_diff"), RichPrint(<<"url_line">>)>>)
            /\ wpc' = [wpc EXCEPT ![m] = "poll"]
            /\ UNCHANGED werror
    /\ UNCHANGED <<dispVars, extra_columns, payload, localVars, fnVars>>

\* diff_id = api.create_data_diff(payload); print the url; raise when the
\* response holds no diff_id (0 stands for None)
WorkerSubmit(m) ==
    /\ wpc[m] = "submit"
    /\ \/ /\ Emit(m, <<Call("create_data_diff"), Raises("Exception:create_data_diff")>>)
          /\ Caught(m, "Exception:create_data_diff")
          /\ UNCHANGED diff_id
       \/ \E id \in {0, m} :
            /\ diff_id' = [diff_id EXCEPT ![m] = id]
            /\ IF diff_vars[m].dev_path = <<>>
               THEN /\ Emit(m, <<Call("create_data_diff"), Raises("IndexError")>>)
                    /\ Caught(m, "IndexError")
               ELSE IF id = 0
               THEN /\ Emit(m, <<Call("create_data_diff"), RichPrint(<<"url_line">>),
                                 Raises("Exception:no_diff_id")>>)
                    /\ Caught(m, "Exception:no_diff_id")
               ELSE /\ Emit(m, <<Call("create_data_diff"), RichPrint(<<"url_line">>)>>)
                    /\ wpc' = [wpc EXCEPT ![m] = "poll"]
                    /\ UNCHANGED werror
    /\ UNCHANGED <<dispVars, extra_columns, payload, localVars, fnVars>>

\* diff_results = api.poll_data_diff_results(diff_id), then the report
WorkerPoll(m) ==
    /\ wpc[m] = "poll"
    /\ \/ \E error \in {"Exception:poll", "KeyboardInterrupt"} :
            /\ Emit(m, <<Call("poll_data_diff_results"), Raises(error)>>)
            /\ Caught(m, error)
       \/ \E r \in RunResults :
            /\ Emit(m, <<Call("poll_data_diff_results"), RichPrint(CloudReport(r).text)>>)
            /\ wpc' = [wpc EXCEPT ![m] = "finally"]
            /\ UNCHANGED werror
    /\ UNCHANGED <<dispVars, diff_id, extra_columns, payload, localVars, fnVars>>

\* variant: an event that could not be delivered ends the finally block
WorkerFinally_abort(m) ==
    /\ wpc[m] = "finally"
    /\ Emit(m, (IF tracking
                THEN send_event_json(<<"end", IF werror[m] = "None" THEN "success" ELSE "failure">>)
                ELSE <<>>)
               \o (IF werror[m] # "None" /\ ~(tracking /\ ~sink_up)
                   THEN <<RichPrint(DiffOutputBase)>>
                        \o (IF diff_id[m] # 0 THEN <<RichPrint(<<"url">>)>> ELSE <<>>)
                        \o <<Log(werror[m])>>
                   ELSE <<>>))
    /\ wpc' = [wpc EXCEPT ![m] = "done"]
    /\ UNCHANGED <<dispVars, werror, diff_id, extra_columns, payload, localVars, fnVars>>

\* variant: the end event is sent after the error output, and always as a success
WorkerFinally_late(m) ==
    /\ wpc[m] = "finally"
    /\ Emit(m, (IF werror[m] # "None"
                THEN <<RichPrint(DiffOutputBase)>>
                     \o (IF diff_id[m] # 0 THEN <<RichPrint(<<"url">>)>> ELSE <<>>)
                     \o <<Log(werror[m])>>
                ELSE <<>>)
               \o (IF tracking THEN send_event_json(<<"end", "success">>) ELSE <<>>))
    /\ wpc' = [wpc EXCEPT ![m] = "done"]
    /\ UNCHANGED <<dispVars, werror, diff_id, extra_columns, payload, localVars, fnVars>>

\* finally: end event when tracking is enabled; on error the partial text,
\* the link when a diff_id exists, and the error log entry
WorkerFinally(m) ==
    /\ wpc[m] = "finally"
    /\ Emit(m, (IF tracking
                THEN send_event_json(<<"end", IF werror[m] = "None" THEN "success" ELSE "failure">>)
                ELSE <<>>)
               \o (IF werror[m] # "None"
                   THEN <<RichPrint(DiffOutputBase)>>
                        \o (IF diff_id[m] # 0 THEN <<RichPrint(<<"url">>)>> ELSE <<>>)
                        \o <<Log(werror[m])>>
                   ELSE <<>>))
    /\ wpc' = [wpc EXCEPT ![m] = "done"]
    /\ UNCHANGED <<dispVars, werror, diff_id, extra_columns, payload, localVars, fnVars>>

Worker == \E m \in 1..Len(models) :
    WorkerBegin(m) \/ WorkerSubmit(m) \/ WorkerPoll(m) \/ WorkerFinally(m)

Next ==
    \/ SetupCloud \/ SetupNoApi \/ SetupRaise \/ SetupLocal
    \/ ResolveRaise \/ SkipModel \/ StartCloud \/ EnterLocal \/ LoopEnd \/ Join
    \/ ConnectDev \/ ConnectProd \/ SchemaDev \/ SchemaProd \/ DiffTables
    \/ Worker

Spec == Init /\ [][Next]_vars

----------------------------------------------------------------------------
(* _get_diff_vars called on its own, over a larger set of inputs *)

SeqsUpTo(chars, n) == UNION {[1..k -> chars] : k \in 0..n}

Blank == <<>>

\* the alias of a model is its table name and is never blank; database and
\* schema may be
ResolveModels ==
    { Model(database, schema_, alias, config_database, config_schema, primary_keys,
            Blank, <<>>, <<>>) :
        database \in {Blank, Str("d")}, schema_ \in {Blank, Str("a")},
        alias \in {Str("b"), Str("d")}, config_database \in {Blank, Str("x")},
        config_schema \in {Blank, Str("x")}, primary_keys \in {<<>>, <<Str("i")>>} }

ResolveConfigs ==
    { Config(prod_database, prod_schema, prod_custom_schema, requires_upper) :
        prod_database \in {Blank, Str("p")}, prod_schema \in {Blank, Str("p")},
        prod_custom_schema \in SeqsUpTo({"p", Placeholder}, MaxTemplate),
        requires_upper \in BOOLEAN }

Idle ==
    /\ is_cloud = FALSE
    /\ tracking = FALSE
    /\ sink_up = TRUE
    /\ models = <<>>
    /\ config = Config(<<>>, <<>>, <<>>, FALSE)
    /\ pc = "unit"
    /\ exc = "None"
    /\ idx = 1
    /\ diff_threads = <<>>
    /\ joined = 0
    /\ diff_vars = <<>>
    /\ wpc = <<>>
    /\ werror = <<>>
    /\ diff_id = <<>>
    /\ trace = <<>>
    /\ payload = <<>>
    /\ extra_columns = <<>>
    /\ table1_columns = NoSchema
    /\ table2_columns = NoSchema

InitResolve ==
    /\ Idle
    /\ \E cfg \in ResolveConfigs, model \in ResolveModels :
        resolve_in = [called |-> TRUE, config |-> cfg, model |-> model]
    /\ resolve_out = NoCall
    /\ select_in = NoCall
    /\ select_out = NoCall
    /\ remote_in = NoCall
    /\ remote_out = NoCall

ResolveResult == _get_diff_vars(resolve_in.config, resolve_in.model)

\* the call raises the ValueError
ResolveRaises ==
    /\ resolve_in.called
    /\ ~resolve_out.called
    /\ ResolveResult.raised
    /\ resolve_out' = [called |-> TRUE, raised |-> TRUE]
    /\ UNCHANGED <<dispVars, jobVars, localVars, resolve_in, select_in, select_out, remote_in, remote_out>>

\* the call returns a TDiffVars
ResolveReturns ==
    /\ resolve_in.called
    /\ ~resolve_out.called
    /\ ~ResolveResult.raised
    /\ resolve_out' = [called |-> TRUE, raised |-> FALSE, diff_vars |-> ResolveResult]
    /\ UNCHANGED <<dispVars, jobVars, localVars, resolve_in, select_in, select_out, remote_in, remote_out>>

NextResolve == ResolveRaises \/ ResolveReturns

SpecResolve == InitResolve /\ [][NextResolve]_vars

----------------------------------------------------------------------------
(* the schema reconciliation and column selection of _local_diff on its     *)
(* own, over all pairs of schemas on a small set of column names           *)

ColumnNames == {Str("a"), Str("A"), Str("b")}

ListNames == {Str("a"), Str("B")}

InitSelect ==
    /\ Idle
    /\ \E t1 \in Schemas(ColumnNames), t2 \in Schemas(ColumnNames),
          primary_keys \in {<<>>, <<Str("a")>>, <<Str("b")>>},
          include_columns \in SeqsUpTo(ListNames, MaxList),
          exclude_columns \in SeqsUpTo(ListNames, MaxList) :
        select_in = [called |-> TRUE, table1_columns |-> t1, table2_columns |-> t2,
                     primary_keys |-> primary_keys, include_columns |-> include_columns,
                     exclude_columns |-> exclude_columns]
    /\ select_out = NoCall
    /\ resolve_in = NoCall
    /\ resolve_out = NoCall
    /\ remote_in = NoCall
    /\ remote_out = NoCall

SelectColumns ==
    /\ select_in.called
    /\ ~select_out.called
    /\ LET t1 == select_in.table1_columns
           t2 == select_in.table2_columns
       IN  select_out' =
             [called |-> TRUE,
              columns_added |-> ColumnsAdded(t1, t2),
              columns_removed |-> ColumnsRemoved(t1, t2),
              columns_type_changed |-> ColumnsTypeChanged(t1, t2),
              extra_columns |-> ExtraColumns(t1, t2, select_in.primary_keys,
                                             select_in.include_columns,
                                             select_in.exclude_columns)]
    /\ UNCHANGED <<dispVars, jobVars, localVars, resolve_in, resolve_out, select_in, remote_in, remote_out>>

NextSelect == SelectColumns

SpecSelect == InitSelect /\ [][NextSelect]_vars

----------------------------------------------------------------------------
(* the payload construction and the result translation of _cloud_diff on   *)
(* their own, over larger sets of diff variables and result documents      *)

PayloadModels ==
    { Model(Str("d"), Str("a"), Str("b"), Blank, config_schema, <<Str("i")>>, where_filter, include_columns, exclude_columns) :
        config_schema \in {Blank, Str("x")}, where_filter \in {Blank, Str("x")},
        include_columns \in SeqsUpTo(ListNames, MaxList),
        exclude_columns \in SeqsUpTo(ListNames, MaxList) }

PayloadInputs ==
    { [called |-> TRUE, call |-> "payload", diff_vars |-> _get_diff_vars(cfg, model),
       datasource_id |-> ds_id] :
        cfg \in {c \in RunConfigs : c.prod_custom_schema # <<>> \/ c.prod_schema = <<>>},
        model \in PayloadModels, ds_id \in {1, 2} }

StatColumns == <<Str("a"), Str("b")>>

Matches100 == {0, 50, 100}

\* per-column statistics: one entry per column of a subset of StatColumns
StatsLists ==
    { SelectSeq([k \in 1..Len(StatColumns) |-> [column_name |-> StatColumns[k], match |-> f[k]]],
                LAMBDA x : x.match >= 0) :
        f \in [1..Len(StatColumns) -> Matches100 \cup {-1}] }

ResultDocs ==
    { [exclusives |-> <<prod_only, dev_only>>, rows_with_differences |-> updated,
       total_rows |-> total, columns_diff_stats |-> stats,
       exclusive_columns |-> <<cols_prod_only, cols_dev_only>>,
       column_type_differs |-> differs] :
        prod_only \in 0..MaxRows, dev_only \in 0..MaxRows, updated \in 0..MaxRows,
        total \in (0..MaxRows) \cup {100}, stats \in StatsLists,
        cols_prod_only \in {<<>>, <<Str("x")>>}, cols_dev_only \in {<<>>, <<Str("b")>>},
        differs \in {<<>>, <<Str("a")>>} }

InitRemote ==
    /\ Idle
    /\ remote_in \in PayloadInputs
                   \cup {[called |-> TRUE, call |-> "report", result |-> r] : r \in ResultDocs}
    /\ remote_out = NoCall
    /\ resolve_in = NoCall
    /\ resolve_out = NoCall
    /\ select_in = NoCall
    /\ select_out = NoCall

BuildPayload ==
    /\ remote_in.called
    /\ ~remote_out.called
    /\ remote_in.call = "payload"
    /\ remote_out' = [called |-> TRUE,
                      payload |-> CloudPayload(remote_in.diff_vars, remote_in.datasource_id)]
    /\ UNCHANGED <<dispVars, jobVars, localVars, resolve_in, resolve_out, select_in, select_out, remote_in>>

TranslateResult ==
    /\ remote_in.called
    /\ ~remote_out.called
    /\ remote_in.call = "report"
    /\ remote_out' = [called |-> TRUE, report |-> CloudReport(remote_in.result)]
    /\ UNCHANGED <<dispVars, jobVars, localVars, resolve_in, resolve_out, select_in, select_out, remote_in>>

NextRemote == BuildPayload \/ TranslateResult

SpecRemote == InitRemote /\ [][NextRemote]_vars

----------------------------------------------------------------------------
(* Properties of a dispatched run (Spec) *)

Running(m) == wpc[m] \in {"begin", "submit", "poll", "finally"}

HasEffect(m, e) == \E k \in 1..Len(trace[m]) : trace[m][k] = e

\* the call `name` of job m raised `error`
CallRaised(m, name, error) ==
    \E k \in 1..(Len(trace[m]) - 1) :
        trace[m][k] = Call(name) /\ trace[m][k + 1] = Raises(error)

NoRaise(m) == OfKind(m, "raise") = <<>>

Terminated == pc \in {"returned", "raised"} /\ \A m \in DOMAIN wpc : ~Running(m)

\* C1: in remote mode dbt_diff returns only after every remote job it
\* started has finished: when the dispatcher has returned, no started
\* _cloud_diff worker is still running.
C1_ReturnsAfterAllWorkers ==
    pc = "returned" =>
        /\ \A m \in DOMAIN wpc : ~Running(m)
        /\ \A k \in 1..Len(diff_threads) : wpc[diff_threads[k]] = "done"

C1_Witness ==
    /\ pc = "returned"
    /\ Len(diff_threads) >= 2
    /\ \A k \in 1..Len(diff_threads) : wpc[diff_threads[k]] = "done"

PollErrors == {"Exception:poll", "KeyboardInterrupt"}

SuccessReports ==
    {RichPrint(DiffOutputBase \o blocks \o <<"url", last>> ) :
        blocks \in {<<>>, <<"columns_added", "columns_removed">>},
        last \in {"row_delta", "no_differences"}}

C2_State ==
    \A f \in DOMAIN wpc, s \in DOMAIN wpc, error \in PollErrors :
        (f # s /\ CallRaised(f, "poll_data_diff_results", error)
               /\ wpc[s] # "none" /\ NoRaise(s)) =>
            /\ werror[f] = error
            /\ exc \notin PollErrors
            /\ wpc[f] = "done" =>
                 /\ HasEffect(f, RichPrint(DiffOutputBase))
                 /\ HasEffect(f, Log(error))
            /\ wpc[s] = "done" =>
                 /\ werror[s] = "None"
                 /\ \E r \in SuccessReports : HasEffect(s, r)
            /\ pc = "returned" => wpc[f] = "done" /\ wpc[s] = "done"

C2_Step ==
    \A f \in DOMAIN wpc :
        (NoRaise(f) /\ ~NoRaise(f)') =>
            \A s \in DOMAIN wpc \ {f} :
                wpc'[s] = wpc[s] /\ werror'[s] = werror[s] /\ trace'[s] = trace[s]

\* C2: of two concurrently dispatched remote jobs, one succeeding and one
\* whose polling call raises (KeyboardInterrupt included): the exception is
\* caught in the failing worker and recorded as its error, the failing job's
\* report is printed and its error logged, the succeeding job's report is
\* printed, the failure leaves the sibling worker untouched, and the
\* dispatcher returns only after both are done.
C2_PollFailureIsolated == []C2_State /\ [][C2_Step]_vars

C2_Witness ==
    /\ pc = "returned"
    /\ \E f \in DOMAIN wpc, s \in DOMAIN wpc :
        /\ f # s
        /\ CallRaised(f, "poll_data_diff_results", "KeyboardInterrupt")
        /\ wpc[s] = "done" /\ NoRaise(s)

SkipNotice == RichPrint(DiffOutputBase \o <<"skipped_unknown_primary_key">>)

C3_State ==
    \A m \in DOMAIN models :
        models[m].primary_keys = <<>> =>
            /\ wpc[m] = "none"
            /\ \A k \in 1..Len(diff_threads) : diff_threads[k] # m
            /\ OfKind(m, "call") = <<>>
            /\ extra_columns[m] = {}
            /\ m < idx => trace[m] = <<SkipNotice>>

C3_Step ==
    (/\ pc = "loop" /\ idx <= Len(models)
     /\ models[idx].primary_keys = <<>>
     /\ ~_get_diff_vars(config, models[idx]).raised
     /\ <<pc, idx>>' # <<pc, idx>>) =>
        pc' = "loop" /\ idx' = idx + 1

\* C3: for every model whose primary-key list is empty the dispatcher prints
\* the "skipped due to unknown primary key" notice, calls no comparison
\* backend and starts no thread for it, in local and in remote mode, and
\* goes on to the next model.
C3_EmptyKeySkipped == []C3_State /\ [][C3_Step]_vars

C3_Witness ==
    \E m \in DOMAIN models :
        /\ models[m].primary_keys = <<>>
        /\ trace[m] = <<SkipNotice>>
        /\ m + 1 \in DOMAIN models
        /\ OfKind(m + 1, "call") # <<>>

\* C4 as stated: when resolution fails for any model of the list, no model
\* of the list has been diffed or had a remote job started.
C4_NoModelProcessedBeforeConfigError ==
    (pc = "raised" /\ exc = "ValueError:custom_schema") =>
        \A m \in DOMAIN wpc : wpc[m] = "none" /\ OfKind(m, "call") = <<>>

JobFailed(m) ==
    \E error \in {"ConnectionError:dev", "ConnectionError:prod", "SchemaError:dev",
                  "DiffError", "Exception:create_data_diff", "Exception:no_diff_id",
                  "Exception:poll", "KeyboardInterrupt"} : HasEffect(m, Raises(error))

\* C5 as stated: when the job of one model fails, in local as in remote
\* mode, every other model with a non-empty primary key is still dispatched
\* and diffed.
C5_SiblingsStillDiffed ==
    \A f \in DOMAIN wpc :
        (Terminated /\ exc # "ValueError:custom_schema" /\ JobFailed(f)) =>
            \A m \in DOMAIN wpc \ {f} :
                models[m].primary_keys # <<>> => OfKind(m, "call") # <<>>

Last(seq) == seq[Len(seq)]

C10_State ==
    \A m \in DOMAIN wpc :
        /\ HasEffect(m, Raises("SchemaError:dev")) =>
             /\ pc = "raised" /\ exc = "SchemaError:dev" /\ idx = m
             /\ Last(trace[m]) = Raises("SchemaError:dev")
             /\ OfKind(m, "print") = <<>>
        /\ HasEffect(m, Raises("SchemaError:prod")) =>
             /\ trace[m] = <<Call("connect_to_table:dev"), Call("connect_to_table:prod"),
                             Call("table1.get_schema"), Call("table2.get_schema"),
                             Raises("SchemaError:prod"),
                             RichPrint(DiffOutputBase \o <<"new_model_or_no_access">>)>>
             /\ extra_columns[m] = {}
             /\ pc \in {"loop", "returned"} \/ idx # m

\* C10: in a local run a failure of the dev schema fetch makes the model's
\* job raise; a failure of the prod schema fetch is caught and yields the
\* "new model or no access" report without raising, after which the
\* comparison algorithm is never invoked and the dev table handle is not
\* used again.
C10_SchemaFetchFailures == C10_State

C10_Witness ==
    \E m1 \in DOMAIN wpc, m2 \in DOMAIN wpc :
        /\ HasEffect(m1, Raises("SchemaError:prod"))
        /\ HasEffect(m2, Raises("SchemaError:dev"))

----------------------------------------------------------------------------
(* Properties of _get_diff_vars (SpecResolve) *)

\* the template with each placeholder token replaced by the custom schema
RECURSIVE Substituted(_, _)
Substituted(template, custom) ==
    IF Len(template) = 0 THEN <<>>
    ELSE Substituted(SubSeq(template, 1, Len(template) - 1), custom)
         \o (IF template[Len(template)] = Placeholder
             THEN custom ELSE <<template[Len(template)]>>)

C6_Holds(premise) ==
    resolve_out.called =>
        LET model == resolve_in.model
            cfg == resolve_in.config
        IN  /\ (premise /\ model.config_schema # <<>> /\ cfg.prod_custom_schema = <<>>) =>
                 resolve_out.raised
            /\ (premise /\ model.config_schema # <<>> /\ cfg.prod_custom_schema # <<>>) =>
                 /\ ~resolve_out.raised
                 /\ resolve_out.diff_vars.prod_schema =
                        Substituted(cfg.prod_custom_schema, model.config_schema)
                 /\ \E k \in 1..Len(resolve_out.diff_vars.prod_path) :
                        resolve_out.diff_vars.prod_path[k] =
                            IF cfg.requires_upper
                            THEN Upper(Substituted(cfg.prod_custom_schema, model.config_schema))
                            ELSE Substituted(cfg.prod_custom_schema, model.config_schema)

\* C6 as stated: resolving a model that declares a custom schema raises when
\* no custom-schema template is configured, and with the template yields the
\* template with the placeholder replaced by the model's custom schema.
C6_CustomSchemaAlways == C6_Holds(TRUE)

\* C6, amended: the same, when a project-level prod schema is configured.
C6_CustomSchemaUnderProdSchema == C6_Holds(resolve_in.config.prod_schema # <<>>)

C6_Witness ==
    /\ resolve_out.called
    /\ ~resolve_out.raised
    /\ resolve_in.config.prod_schema # <<>>
    /\ resolve_in.model.config_schema = Str("x")
    /\ resolve_in.config.prod_custom_schema = <<"p", Placeholder>>
    /\ resolve_out.diff_vars.prod_schema = <<"p", "x">>

----------------------------------------------------------------------------
(* Properties of the reconciliation and column selection (SpecSelect) *)

\* C7: added = names(dev) minus names(prod), removed = names(prod) minus
\* names(dev), type-changed = exactly the shared columns whose type
\* descriptors differ; the three sets are pairwise disjoint.
C7_Reconcile ==
    select_out.called =>
        LET A == select_in.table1_columns
            B == select_in.table2_columns
            added == select_out.columns_added
            removed == select_out.columns_removed
            changed == select_out.columns_type_changed
        IN  /\ added \cup removed \cup changed \subseteq ColumnNames
            /\ \A n \in ColumnNames :
                /\ n \in added <=> (n \in DOMAIN A /\ n \notin DOMAIN B)
                /\ n \in removed <=> (n \in DOMAIN B /\ n \notin DOMAIN A)
                /\ n \in changed <=> (n \in DOMAIN A /\ n \in DOMAIN B /\ A[n] # B[n])
            /\ added \cap removed = {}
            /\ added \cap changed = {}
            /\ removed \cap changed = {}

C7_Witness ==
    /\ select_out.called
    /\ select_out.columns_added # {}
    /\ select_out.columns_removed # {}
    /\ select_out.columns_type_changed # {}

SameIgnoringCase(x, y) == Upper(x) = Upper(y)

Matches(x, list) == \E k \in 1..Len(list) : SameIgnoringCase(x, list[k])

\* the shared columns left after dropping type-changed and key columns
Remaining ==
    ((DOMAIN select_in.table1_columns \cap DOMAIN select_in.table2_columns)
        \ select_out.columns_type_changed) \ Range(select_in.primary_keys)

\* C8: the comparable column set holds no primary-key column and no
\* type-changed column, is a subset of the columns of both schemas, and is
\* empty when the include list is non-empty and matches none of the
\* remaining columns case-insensitively.
C8_Comparable ==
    select_out.called =>
        LET extra == select_out.extra_columns
        IN  /\ \A k \in 1..Len(select_in.primary_keys) : select_in.primary_keys[k] \notin extra
            /\ extra \cap select_out.columns_type_changed = {}
            /\ extra \subseteq DOMAIN select_in.table1_columns
            /\ extra \subseteq DOMAIN select_in.table2_columns
            /\ (/\ select_in.include_columns # <<>>
                /\ \A x \in Remaining : ~Matches(x, select_in.include_columns)) =>
                    extra = {}

C8_Witness ==
    /\ select_out.called
    /\ select_in.include_columns # <<>>
    /\ Remaining # {}
    /\ \A x \in Remaining : ~Matches(x, select_in.include_columns)
    /\ select_out.columns_type_changed # {}
    /\ \E k \in 1..Len(select_in.primary_keys) :
          select_in.primary_keys[k] \in
              DOMAIN select_in.table1_columns \cap DOMAIN select_in.table2_columns
    /\ select_out.extra_columns = {}

\* C9: exclude overrides include: a column name that matches, ignoring
\* case, an entry of the include list and an entry of the exclude list is
\* not in the comparable column set.
C9_ExcludeWins ==
    select_out.called =>
        \A x \in ColumnNames :
            (Matches(x, select_in.include_columns) /\ Matches(x, select_in.exclude_columns)) =>
                x \notin select_out.extra_columns

C9_Witness ==
    /\ select_out.called
    /\ \E x \in Remaining :
        /\ x \notin Range(select_in.exclude_columns)
        /\ Matches(x, select_in.include_columns)
        /\ Matches(x, select_in.exclude_columns)
        /\ x \notin select_out.extra_columns

----------------------------------------------------------------------------
(* Properties of the remote payload and report (SpecRemote) *)

Reported == remote_out.called /\ remote_in.call = "report"

DigitValue(c) == CHOOSE d \in 0..9 : DigitChar(d) = c

\* the integer a decimal string denotes
RECURSIVE DecimalValue(_)
DecimalValue(str) ==
    IF Len(str) = 0 THEN 0
    ELSE IF Head(str) = "-" THEN 0 - DecimalValue(Tail(str))
    ELSE 10 * DecimalValue(SubSeq(str, 1, Len(str) - 1)) + DigitValue(str[Len(str)])

\* C11: a result document whose row-exclusivity pair is all zero and whose
\* rows-with-differences is zero yields a "no differences" report without
\* row-delta numbers; a document with non-zero rows-updated yields a
\* row-delta report whose unchanged count is total_rows - rows_updated.
C11_RemoteReport ==
    Reported =>
        LET r == remote_in.result
            report == remote_out.report
        IN  /\ (r.exclusives = <<0, 0>> /\ r.rows_with_differences = 0) =>
                 /\ Last(report.text) = "no_differences"
                 /\ \A k \in 1..Len(report.text) : report.text[k] # "row_delta"
                 /\ report.row_delta = <<>>
            /\ r.rows_with_differences # 0 =>
                 /\ Last(report.text) = "row_delta"
                 /\ \A k \in 1..Len(report.text) : report.text[k] # "no_differences"
                 /\ Len(report.row_delta) = 1
                 /\ report.row_delta[1].rows_updated = r.rows_with_differences
                 /\ DecimalValue(report.row_delta[1].rows_unchanged)
                        = r.total_rows - r.rows_with_differences

C11_Witness ==
    /\ Reported
    /\ remote_in.result.rows_with_differences = 1
    /\ remote_in.result.total_rows = 100
    /\ remote_out.report.row_delta[1].rows_unchanged = <<"9", "9">>

Resolved_ == resolve_out.called /\ ~resolve_out.raised

\* C19: with no project-level prod schema configured the prod schema is
\* the dev schema for every model, with or without a custom schema, and
\* nothing is raised; with one configured and no custom schema on the model
\* the prod schema is the project-level prod schema.
C19_ProdSchema ==
    resolve_out.called =>
        LET model == resolve_in.model
            cfg == resolve_in.config
        IN  /\ cfg.prod_schema = <<>> =>
                 /\ ~resolve_out.raised
                 /\ resolve_out.diff_vars.prod_schema = model.schema_
            /\ (cfg.prod_schema # <<>> /\ model.config_schema = <<>>) =>
                 /\ ~resolve_out.raised
                 /\ resolve_out.diff_vars.prod_schema = cfg.prod_schema

C19_Witness ==
    /\ Resolved_
    /\ resolve_in.config.prod_schema = <<>>
    /\ resolve_in.config.prod_custom_schema = <<>>
    /\ resolve_in.model.config_schema = Str("x")
    /\ resolve_in.model.schema_ = Str("a")
    /\ resolve_out.diff_vars.prod_schema = Str("a")

\* the non-blank segments of <<database, schema, table>>, in that order
NonBlank(database, schema_, table) ==
    (IF database # <<>> THEN <<database>> ELSE <<>>)
    \o (IF schema_ # <<>> THEN <<schema_>> ELSE <<>>)
    \o (IF table # <<>> THEN <<table>> ELSE <<>>)

\* C20: the dev path and the prod path of every resolved record are
\* non-empty, hold no empty segment, keep the order database, schema, table
\* of the segments that were not blank, and end in the same table segment,
\* the alias of the model.
C20_Paths ==
    Resolved_ =>
        LET model == resolve_in.model
            cfg == resolve_in.config
            dv == resolve_out.diff_vars
            Cased(x) == IF cfg.requires_upper THEN Upper(x) ELSE x
        IN  /\ dv.dev_path # <<>>
            /\ dv.prod_path # <<>>
            /\ \A k \in 1..Len(dv.dev_path) : dv.dev_path[k] # <<>>
            /\ \A k \in 1..Len(dv.prod_path) : dv.prod_path[k] # <<>>
            /\ dv.dev_path
                 = NonBlank(Cased(model.database), Cased(model.schema_), Cased(model.alias))
            /\ dv.prod_path
                 = NonBlank(Cased(ProdDatabase(model, cfg.prod_database)),
                            Cased(dv.prod_schema), Cased(model.alias))
            /\ Last(dv.dev_path) = Cased(model.alias)
            /\ Last(dv.prod_path) = Last(dv.dev_path)

C20_Witness ==
    /\ Resolved_
    /\ resolve_in.config.requires_upper
    /\ resolve_in.model.database = <<>>
    /\ resolve_in.model.schema_ = <<>>
    /\ resolve_in.model.alias = Str("d")
    /\ resolve_out.diff_vars.dev_path = <<Str("D")>>
    /\ Len(resolve_out.diff_vars.prod_path) = 3

PayloadBuilt == remote_out.called /\ remote_in.call = "payload"

\* C17: the payload uses the one data source id for both sides, has the
\* prod path as table1 and the dev path as table2, the same filter on both
\* sides, and the resolved primary keys, include list and exclude list
\* unchanged.
C17_Payload ==
    PayloadBuilt =>
        LET dv == remote_in.diff_vars
            p == remote_out.payload
        IN  /\ p.data_source1_id = remote_in.datasource_id
            /\ p.data_source2_id = p.data_source1_id
            /\ p.table1 = dv.prod_path
            /\ p.table2 = dv.dev_path
            /\ p.filter1 = dv.where_filter
            /\ p.filter2 = p.filter1
            /\ p.pk_columns = dv.primary_keys
            /\ p.include_columns = dv.include_columns
            /\ p.exclude_columns = dv.exclude_columns

C17_Witness ==
    /\ PayloadBuilt
    /\ remote_in.diff_vars.prod_path # remote_in.diff_vars.dev_path
    /\ remote_out.payload.filter1 # <<>>
    /\ remote_out.payload.include_columns # <<>>
    /\ remote_out.payload.include_columns # remote_out.payload.exclude_columns
    /\ remote_out.payload.data_source2_id = 2

\* element i of a pair, counted from 0 as the result document counts
Index(pair, i) == pair[i + 1]

\* C18: every exclusivity pair is read with index 0 as prod-only and index
\* 1 as dev-only: rows added is the dev-only count, rows removed the
\* prod-only count, columns added the dev-only list, columns removed the
\* prod-only list; the match map of a row-delta report holds exactly the
\* columns whose match is not 100.
C18_ExclusivityReading ==
    Reported =>
        LET r == remote_in.result
            report == remote_out.report
            stats == r.columns_diff_stats
            Block(name) == \E k \in 1..Len(report.text) : report.text[k] = name
        IN  /\ report.columns_added = Index(r.exclusive_columns, 1)
            /\ report.columns_removed = Index(r.exclusive_columns, 0)
            /\ Block("columns_added") <=> Index(r.exclusive_columns, 1) # <<>>
            /\ Block("columns_removed") <=> Index(r.exclusive_columns, 0) # <<>>
            /\ Len(report.row_delta) = 1 =>
                 /\ report.row_delta[1].rows_added = Index(r.exclusives, 1)
                 /\ report.row_delta[1].rows_removed = Index(r.exclusives, 0)
                 /\ DOMAIN report.row_delta[1].diff_percent_list
                        = {stats[k].column_name : k \in {j \in 1..Len(stats) : stats[j].match # 100}}
                 /\ \A k \in 1..Len(stats) :
                        stats[k].match # 100 =>
                            report.row_delta[1].diff_percent_list[stats[k].column_name]
                                = <<stats[k].match, "%">>

C18_Witness ==
    /\ Reported
    /\ remote_in.result.exclusives = <<0, 1>>
    /\ remote_in.result.exclusive_columns = <<<<Str("x")>>, <<>>>>
    /\ Len(remote_in.result.columns_diff_stats) = 2
    /\ remote_in.result.columns_diff_stats[1].match = 100
    /\ remote_in.result.columns_diff_stats[2].match = 50
    /\ DOMAIN remote_out.report.row_delta[1].diff_percent_list = {Str("b")}

----------------------------------------------------------------------------
(* Ordering properties of a dispatched run (Spec) *)

\* the job of model m has printed its one report and done nothing since
Finished(m) == Len(OfKind(m, "print")) = 1 /\ Last(trace[m]).kind = "print"

C12_State ==
    ~is_cloud =>
        /\ diff_threads = <<>>
        /\ \A m \in DOMAIN wpc : wpc[m] = "none"
        /\ \A m \in DOMAIN models :
            /\ m < idx => Finished(m)
            /\ m > idx => trace[m] = <<>> /\ diff_vars[m] = NoDiffVars
            /\ diff_vars[m] # NoDiffVars => \A before \in 1..(m - 1) : Finished(before)

C12_Step ==
    ~is_cloud =>
        \A m \in DOMAIN models :
            Len(OfKind(m, "print"))' > Len(OfKind(m, "print")) =>
                /\ \A before \in 1..(m - 1) : Finished(before)
                /\ \A after \in (m + 1)..Len(models) : trace'[after] = <<>>

\* C12: in local mode at most one local job is in progress: the job of
\* model i has printed its report before the diff variables of model i+1
\* are resolved, so the reports appear in model order, and no worker thread
\* is ever started.
C12_LocalSequential == []C12_State /\ [][C12_Step]_vars

C12_Witness ==
    /\ ~is_cloud
    /\ pc = "returned"
    /\ Len(models) >= 2
    /\ \A m \in DOMAIN models : Finished(m) /\ HasEffect(m, Call("diff_tables"))

\* C13: in remote mode no remote job blocks the iteration over the models:
\* the job of a model with a primary key can be started whatever the state
\* of the jobs started before it, and no thread is joined before the last
\* model has been iterated.
C13_IterationNotBlocked ==
    is_cloud =>
        /\ (/\ pc = "loop" /\ idx <= Len(models)
            /\ models[idx].primary_keys # <<>>
            /\ ~_get_diff_vars(config, models[idx]).raised) => ENABLED StartCloud
        /\ (pc = "join" \/ joined > 0) => idx > Len(models)

\* every job outstanding at once, the loop over and nothing joined yet
C13_Witness ==
    /\ is_cloud
    /\ Len(diff_threads) >= 2
    /\ Len(diff_threads) = Len(models)
    /\ idx > Len(models)
    /\ joined = 0
    /\ \A m \in DOMAIN wpc : wpc[m] = "begin"

----------------------------------------------------------------------------
(* Telemetry and error output of a remote job (Spec) *)

\* the effects of job m other than telemetry events
Quiet(m) == SelectSeq(trace[m], LAMBDA e : e.kind # "event")

EndEvents(m) == SelectSeq(trace[m], LAMBDA e : e.kind = "event" /\ e.what[1] = "end")

Position(seq, kind) == CHOOSE k \in 1..Len(seq) : seq[k].kind = kind

After(seq, k) == SubSeq(seq, k + 1, Len(seq))

\* what the finally block prints and logs for a job that failed with error
ErrorOutput(m, error) ==
    <<RichPrint(DiffOutputBase)>>
    \o (IF diff_id[m] # 0 THEN <<RichPrint(<<"url">>)>> ELSE <<>>)
    \o <<Log(error)>>

C15_EndEvent ==
    \A m \in DOMAIN wpc :
        /\ ~tracking => OfKind(m, "event") = <<>>
        /\ (tracking /\ wpc[m] \in {"submit", "poll", "finally"}) => EndEvents(m) = <<>>
        /\ (tracking /\ wpc[m] = "done") =>
             /\ Len(EndEvents(m)) = 1
             /\ EndEvents(m)[1].what[2] = "success" <=> NoRaise(m)
             /\ EndEvents(m)[1].what[2] = "failure" <=> ~NoRaise(m)
             /\ Len(OfKind(m, "raise")) <= 1
             /\ ~NoRaise(m) =>
                  LET k == CHOOSE k \in 1..Len(trace[m]) : trace[m][k] = EndEvents(m)[1]
                  IN  /\ trace[m][k - 1].kind = "raise"
                      /\ After(trace[m], k) = ErrorOutput(m, trace[m][k - 1].what[1])
             /\ NoRaise(m) => Last(trace[m]) = EndEvents(m)[1]

C15_Witness ==
    \E m \in DOMAIN wpc :
        /\ tracking
        /\ wpc[m] = "done"
        /\ CallRaised(m, "poll_data_diff_results", "Exception:poll")
        /\ diff_id[m] # 0
        /\ HasEffect(m, RichPrint(<<"url">>))

\* the submission of job m returned without a diff_id
NoHandle(m) ==
    /\ HasEffect(m, Call("create_data_diff"))
    /\ ~HasEffect(m, Raises("Exception:create_data_diff"))
    /\ diff_id[m] = 0

\* C16: when the submission returns no job handle the job fails with a
\* submission error caught in the worker: the polling call is never made,
\* the job ends in the error outcome (partial text printed, error logged),
\* and the error output holds no link.
C16_NoHandle ==
    \A m \in DOMAIN wpc :
        NoHandle(m) =>
            /\ wpc[m] \in {"finally", "done"}
            /\ werror[m] = "Exception:no_diff_id"
            /\ HasEffect(m, Raises("Exception:no_diff_id"))
            /\ ~HasEffect(m, Call("poll_data_diff_results"))
            /\ wpc[m] = "done" =>
                 After(Quiet(m), Position(Quiet(m), "raise"))
                     = <<RichPrint(DiffOutputBase), Log("Exception:no_diff_id")>>

C16_Witness ==
    \E m \in DOMAIN wpc : NoHandle(m) /\ wpc[m] = "done" /\ pc = "returned"

====
